---------------------------- MODULE Spec2Model ----------------------------
(***************************************************************************)
(* A model of pynwm (src/src/pynwm/nwm.py): the COMID index resolver       *)
(* _get_comid_indices, the time series unpacker _unpack_series, the file   *)
(* subset extractor subset_channel_file, the streamflow cube builder       *)
(* build_streamflow_cube and the combiner combine_files.                   *)
(*                                                                         *)
(* Each component has a specification of its own:                          *)
(*   SpecResolver  _get_comid_indices                                      *)
(*   SpecUnpack    _unpack_series                                          *)
(*   SpecSubset    subset_channel_file                                     *)
(*   Spec          build_streamflow_cube, called directly or by            *)
(*                 combine_files                                           *)
(* The variables of the components a specification does not run stay at    *)
(* their idle values.                                                      *)
(*                                                                         *)
(* numpy positions are 0-based and are kept 0-based here: a position p of  *)
(* an array a, modelled as the sequence s, is read with Nth(s, p).         *)
(***************************************************************************)
EXTENDS Integers, Sequences, FiniteSets, TLC

VARIABLES
    \* _get_comid_indices
    find_comids,        \* argument: the query ids
    nc_comids,          \* argument: the file's station_id array
    index,              \* the returned positions
    rpc,                \* "call" | "returned" | "raised"
    \* _unpack_series
    product,            \* argument: the product name
    data_list,          \* json_data's sole value, as the loop sees it
    up_i,               \* how many records of data_list the loop has done
    series_list,        \* the series records appended so far
    upc,                \* "loop" | "returned" | "raised"
    \* subset_channel_file
    in_nc,              \* the input dataset
    sub_args,           \* comids, just_streamflow_var, include_id_var
    vars_to_include,    \* the list computed at lines 394-403
    sub_index,          \* the index permutation of line 405
    sub_todo,           \* the input variables the loop of line 416 has left
    out_nc,             \* the output dataset
    spc,                \* "call" | "copy" | "returned" | "raised"
    \* build_streamflow_cube and combine_files
    fs,                 \* the file system: path -> content or NoFile
    call,               \* the entry point and its arguments
    nc_files,           \* the file list build_streamflow_cube is given
    comids,             \* build_streamflow_cube's comids, once normalised
    num_rivers,
    tmpfile,
    indices,
    seconds_since_date,
    out_q,
    out_t,
    i,                  \* the loop index of line 497, 0-based
    pc,                 \* where the call is
    result,             \* what build_streamflow_cube returned
    err,                \* the exception raised, or NoError
    created,            \* history: scratch paths this call has written
    fs0                 \* history: the file system when the call started

resolverVars == <<find_comids, nc_comids, index, rpc>>
unpackVars   == <<product, data_list, up_i, series_list, upc>>
subsetVars   == <<in_nc, sub_args, vars_to_include, sub_index, sub_todo,
                  out_nc, spc>>
cubeVars     == <<fs, call, nc_files, comids, num_rivers, tmpfile, indices,
                  seconds_since_date, out_q, out_t, i, pc, result, err,
                  created, fs0>>
vars == <<resolverVars, unpackVars, subsetVars, cubeVars>>

\* What a component's actions leave alone: the other components.
notResolver == <<unpackVars, subsetVars, cubeVars>>
notUnpack   == <<resolverVars, subsetVars, cubeVars>>
notSubset   == <<resolverVars, unpackVars, cubeVars>>
notCube     == <<resolverVars, unpackVars, subsetVars>>

\* Python's None, and a value that may be None: None or Some(v).
None == [none |-> TRUE]
Some(v) == [some |-> v]

\* numpy's a[p] for a 0-based position p.
Nth(s, p) == s[p + 1]

NoDuplicates(s) == \A a, b \in 1..Len(s) : s[a] = s[b] => a = b

Range(s) == {s[k] : k \in 1..Len(s)}

\* All sequences over S of length at most n.
SeqsUpTo(S, n) == UNION {[1..k -> S] : k \in 0..n}

(***************************************************************************)
(* _get_comid_indices (lines 305-312)                                      *)
(***************************************************************************)

\* Bounds of the resolver's inputs.
MaxLen == 3
ComidDomain == {1, 2, 3}

\* The results nc_comids.argsort() can have: every 0-based permutation that
\* sorts a. numpy's default sort is not stable, so equal ids may come in
\* either order.
Argsort(a) ==
    {p \in [1..Len(a) -> 0..(Len(a) - 1)] :
        /\ \A x, y \in 1..Len(a) : p[x] = p[y] => x = y
        /\ \A x \in 1..(Len(a) - 1) : Nth(a, p[x]) <= Nth(a, p[x + 1])}

\* nc_comids[sorted_index]
Take(a, idx) == [k \in 1..Len(idx) |-> Nth(a, idx[k])]

SearchSortedRight(sorted, v) ==
    Cardinality({j \in 1..Len(sorted) : sorted[j] <= v})

\* np.searchsorted(sorted, v), side='left': the 0-based insertion position,
\* the number of entries smaller than v.
SearchSortedLeft(sorted, v) ==
    Cardinality({j \in 1..Len(sorted) : sorted[j] < v})

\* found_index_sorted of line 310
FoundIndexSorted(find, nc, sorted_index) ==
    [k \in 1..Len(find) |-> SearchSortedLeft(Take(nc, sorted_index), find[k])]

\* sorted_index[found_index_sorted] raises IndexError when a found position
\* is len(sorted_index): the query id is larger than every stored id.
IndexInBounds(find, nc, sorted_index) ==
    \A k \in 1..Len(find) :
        FoundIndexSorted(find, nc, sorted_index)[k] < Len(nc)

\* index of line 311
GetComidIndices(find, nc, sorted_index) ==
    Take(sorted_index, FoundIndexSorted(find, nc, sorted_index))

ResolverIdle ==
    /\ find_comids = <<>>
    /\ nc_comids = <<>>
    /\ index = <<>>
    /\ rpc = "idle"

ResolverInit ==
    /\ find_comids \in SeqsUpTo(ComidDomain, MaxLen)
    /\ nc_comids \in SeqsUpTo(ComidDomain, MaxLen)
    /\ index = <<>>
    /\ rpc = "call"

ResolverReturn ==
    /\ rpc = "call"
    /\ \E sorted_index \in Argsort(nc_comids) :
        /\ IndexInBounds(find_comids, nc_comids, sorted_index)
        /\ index' = GetComidIndices(find_comids, nc_comids, sorted_index)
    /\ rpc' = "returned"
    /\ UNCHANGED <<find_comids, nc_comids>>
    /\ UNCHANGED notResolver

ResolverIndexError ==
    /\ rpc = "call"
    /\ \E sorted_index \in Argsort(nc_comids) :
        ~IndexInBounds(find_comids, nc_comids, sorted_index)
    /\ rpc' = "raised"
    /\ UNCHANGED <<find_comids, nc_comids, index>>
    /\ UNCHANGED notResolver

ResolverNext ==
    \/ ResolverReturn
    \/ ResolverIndexError

(***************************************************************************)
(* _unpack_series (lines 172-215)                                          *)
(***************************************************************************)

\* Bounds of the payload: value lists per record, samples per value list.
MaxMembers == 2
MaxValues == 2
\* Records in a long_range payload; the other products have exactly one.
RecordCounts == {1, 2}
\* Model initialisation times, Unix seconds.
InitTimes == {0, 86400}

Products == {"analysis_assim", "short_range", "medium_range", "long_range"}

\* Lines 175-186.
TimeStepHrs(p) ==
    CASE p = "analysis_assim" -> 1
      [] p = "short_range" -> 1
      [] p = "medium_range" -> 3
      [] p = "long_range" -> 6

OffsetHrs(p) ==
    CASE p = "analysis_assim" -> 3
      [] p = "short_range" -> 1
      [] p = "medium_range" -> 3
      [] p = "long_range" -> 6

\* timedelta(hours=h), in seconds.
Hours(h) == h * 3600

\* The k-th sample of member m: any number will do, the members differ.
MemberValues(m, n) == [k \in 1..n |-> 10 * m + k]

\* A result record [[init], value_list_1, ..., value_list_k, label]: lists
\* holds sim_result[1:-1].
SimResult(init, lens, label) ==
    [init |-> init,
     lists |-> [m \in 1..Len(lens) |-> MemberValues(m, lens[m])],
     label |-> label]

SimResults ==
    {SimResult(t, lens, "t00z") :
        t \in InitTimes,
        lens \in SeqsUpTo(0..MaxValues, MaxMembers) \ {<<>>}}

\* value_count of line 199: the length of sim_result[1], the first value list.
ValueCount(sim_result) == Len(sim_result.lists[1])

\* dates of lines 196-202, in Unix seconds: built once per record, with
\* value_count entries, and shared by all the record's series.
Dates(sim_result, p, n) ==
    [k \in 1..n |->
        (sim_result.init + Hours(OffsetHrs(p))) + Hours((k - 1) * TimeStepHrs(p))]

\* name of lines 207-210: 'Member {0} {1}' is kept as its two arguments,
\* the 1-based member number and the label; otherwise the product.
SeriesName(sim_result, p, m) ==
    IF Len(sim_result.lists) > 1
        THEN [member |-> m, label |-> sim_result.label]
        ELSE [product |-> p]

\* The series records lines 206-214 append for one record.
SeriesOf(sim_result, p) ==
    [m \in 1..Len(sim_result.lists) |->
        [name |-> SeriesName(sim_result, p, m),
         dates |-> Dates(sim_result, p, ValueCount(sim_result)),
         values |-> sim_result.lists[m]]]

\* The test of line 193: not len(sim_result[1]).
EmptyCheck(sim_result) == Len(sim_result.lists[1]) = 0

UnpackIdle ==
    /\ product = "idle"
    /\ data_list = <<>>
    /\ up_i = 0
    /\ series_list = <<>>
    /\ upc = "idle"

\* Lines 188-191: a long_range payload is a list of records, any other
\* payload is one record, wrapped into a list.
UnpackInit ==
    /\ product \in Products
    /\ \E n \in (IF product = "long_range" THEN RecordCounts ELSE {1}) :
        data_list \in [1..n -> SimResults]
    /\ up_i = 0
    /\ series_list = <<>>
    /\ upc = "loop"

\* Line 193-195: the record's first value list is empty.
UnpackRaiseEmpty ==
    /\ upc = "loop"
    /\ up_i < Len(data_list)
    /\ EmptyCheck(data_list[up_i + 1])
    /\ upc' = "raised"
    /\ UNCHANGED <<product, data_list, up_i, series_list>>
    /\ UNCHANGED notUnpack

\* Lines 196-214: one pass of the loop of line 192.
UnpackRecord ==
    /\ upc = "loop"
    /\ up_i < Len(data_list)
    /\ ~EmptyCheck(data_list[up_i + 1])
    /\ series_list' = series_list \o SeriesOf(data_list[up_i + 1], product)
    /\ up_i' = up_i + 1
    /\ UNCHANGED <<product, data_list, upc>>
    /\ UNCHANGED notUnpack

\* Line 215.
UnpackReturn ==
    /\ upc = "loop"
    /\ up_i = Len(data_list)
    /\ upc' = "returned"
    /\ UNCHANGED <<product, data_list, up_i, series_list>>
    /\ UNCHANGED notUnpack

UnpackNext ==
    \/ UnpackRaiseEmpty
    \/ UnpackRecord
    \/ UnpackReturn

(***************************************************************************)
(* subset_channel_file (lines 362-426)                                     *)
(***************************************************************************)

\* The variables an input file may hold, in the order in_nc.variables
\* iterates them.
VarOrder == <<"time", "station_id", "streamflow", "velocity">>
VarNames == Range(VarOrder)
\* The attribute sets a variable may carry.
AttrOptions == {{"units"}, {"units", "coordinates"}}
\* The station_id arrays and the comids arguments of the extractor's runs.
SubsetStored == {<<1, 2>>, <<2, 1>>}
SubsetQueries == {<<2>>, <<1, 2>>, <<2, 1>>, <<3>>}

\* in_nc.variables.keys(): the names of present, in iteration order.
Keys(present) == SelectSeq(VarOrder, LAMBDA n : n \in present)

\* list.remove(x)
Remove(list, x) == SelectSeq(list, LAMBDA n : n # x)

\* The value variable name holds for the reach id.
Cell(name, id) == <<name, id>>

\* var[:] of a station-indexed variable of a file whose station_id is ids.
VarData(name, ids) == [p \in 1..Len(ids) |-> Cell(name, ids[p])]

\* The time variable's only value.
TimeData == <<"time value">>

\* Lines 394-399, vars_to_include.
BaseVarsToInclude(present, just_streamflow_var) ==
    IF just_streamflow_var
        THEN <<"streamflow", "time">>
        ELSE Keys(present)

\* Lines 394-399, attrs_to_exclude.
AttrsToExclude(just_streamflow_var) ==
    IF just_streamflow_var THEN {"coordinates"} ELSE {}

VarsToIncludeNoOverride(present, just_streamflow_var, include_id_var) ==
    BaseVarsToInclude(present, just_streamflow_var)

\* Lines 394-403: the base list, then the include_id_var override.
VarsToInclude(present, just_streamflow_var, include_id_var) ==
    LET base == BaseVarsToInclude(present, just_streamflow_var)
    IN  IF include_id_var /\ "station_id" \notin Range(base)
            THEN Append(base, "station_id")
        ELSE IF ~include_id_var /\ "station_id" \in Range(base)
            THEN Remove(base, "station_id")
        ELSE base

\* Lines 418-426: the variable written for input variable name.
OutVar(name) ==
    [name |-> name,
     attrs |-> in_nc.attrs[name] \ AttrsToExclude(sub_args.just_streamflow_var),
     data |-> IF name = "time"
                THEN TimeData
                ELSE Take(VarData(name, in_nc.station_id), sub_index)]

SubsetIdle ==
    /\ in_nc = None
    /\ sub_args = None
    /\ vars_to_include = <<>>
    /\ sub_index = <<>>
    /\ sub_todo = <<>>
    /\ out_nc = None
    /\ spc = "idle"

SubsetInit ==
    /\ \E present \in SUBSET VarNames :
        in_nc \in [present : {present},
                   attrs : [present -> AttrOptions],
                   station_id : SubsetStored]
    /\ sub_args \in [comids : SubsetQueries,
                     just_streamflow_var : BOOLEAN,
                     include_id_var : BOOLEAN]
    /\ vars_to_include = <<>>
    /\ sub_index = <<>>
    /\ sub_todo = <<>>
    /\ out_nc = None
    /\ spc = "call"

\* Line 404: in_nc.variables['station_id'] of a file without the variable.
SubsetKeyError ==
    /\ spc = "call"
    /\ "station_id" \notin in_nc.present
    /\ spc' = "raised"
    /\ UNCHANGED <<in_nc, sub_args, vars_to_include, sub_index, sub_todo,
                   out_nc>>
    /\ UNCHANGED notSubset

\* Line 405: _get_comid_indices raises.
SubsetIndexError ==
    /\ spc = "call"
    /\ "station_id" \in in_nc.present
    /\ \E sorted_index \in Argsort(in_nc.station_id) :
        ~IndexInBounds(sub_args.comids, in_nc.station_id, sorted_index)
    /\ spc' = "raised"
    /\ UNCHANGED <<in_nc, sub_args, vars_to_include, sub_index, sub_todo,
                   out_nc>>
    /\ UNCHANGED notSubset

\* Lines 393-414: the lists, the index, and the output file with its
\* dimensions.
SubsetOpen ==
    /\ spc = "call"
    /\ "station_id" \in in_nc.present
    /\ \E sorted_index \in Argsort(in_nc.station_id) :
        /\ IndexInBounds(sub_args.comids, in_nc.station_id, sorted_index)
        /\ sub_index' =
            GetComidIndices(sub_args.comids, in_nc.station_id, sorted_index)
    /\ vars_to_include' = VarsToInclude(in_nc.present,
                                        sub_args.just_streamflow_var,
                                        sub_args.include_id_var)
    /\ sub_todo' = Keys(in_nc.present)
    /\ out_nc' = [station |-> Len(sub_args.comids), variables |-> <<>>]
    /\ spc' = "copy"
    /\ UNCHANGED <<in_nc, sub_args>>
    /\ UNCHANGED notSubset

\* Lines 416-426, a variable of vars_to_include.
SubsetCopyVar ==
    /\ spc = "copy"
    /\ sub_todo # <<>>
    /\ Head(sub_todo) \in Range(vars_to_include)
    /\ out_nc' = [out_nc EXCEPT
                    !.variables = Append(@, OutVar(Head(sub_todo)))]
    /\ sub_todo' = Tail(sub_todo)
    /\ UNCHANGED <<in_nc, sub_args, vars_to_include, sub_index, spc>>
    /\ UNCHANGED notSubset

\* Lines 416-417, a variable that is not in vars_to_include.
SubsetSkipVar ==
    /\ spc = "copy"
    /\ sub_todo # <<>>
    /\ Head(sub_todo) \notin Range(vars_to_include)
    /\ sub_todo' = Tail(sub_todo)
    /\ UNCHANGED <<in_nc, sub_args, vars_to_include, sub_index, out_nc, spc>>
    /\ UNCHANGED notSubset

SubsetReturn ==
    /\ spc = "copy"
    /\ sub_todo = <<>>
    /\ spc' = "returned"
    /\ UNCHANGED <<in_nc, sub_args, vars_to_include, sub_index, sub_todo,
                   out_nc>>
    /\ UNCHANGED notSubset

SubsetNext ==
    \/ SubsetKeyError
    \/ SubsetIndexError
    \/ SubsetOpen
    \/ SubsetCopyVar
    \/ SubsetSkipVar
    \/ SubsetReturn

(***************************************************************************)
(* build_streamflow_cube (lines 429-528), combine_files (lines 531-600)    *)
(***************************************************************************)

\* Bound: the length of the nc_files argument.
MaxFiles == 2

\* A path is its directory, its base name without a '.gz' suffix, and
\* whether it ends in '.gz'.
TmpDir == "tmp"
PathA == [dir |-> "data", name |-> "a.nc", gz |-> TRUE]
PathB == [dir |-> TmpDir, name |-> "a.nc", gz |-> FALSE]
PathC == [dir |-> "data", name |-> "c.nc", gz |-> FALSE]
InputPaths == {PathA, PathB, PathC}
\* combine_files' output_file: a path that is no input and no scratch file.
OutputFile == [dir |-> "out", name |-> "combined.nc", gz |-> FALSE]

\* Line 499: os.path.join(tmpdir, os.path.basename(nc_file)[:-3])
TmpPath(p) == [dir |-> TmpDir, name |-> p.name, gz |-> FALSE]

AllPaths ==
    InputPaths \cup {TmpPath(p) : p \in {x \in InputPaths : x.gz}}
        \cup {OutputFile}

\* What the file system holds at a path where there is no file.
NoFile == [kind |-> "none"]
\* No exception.
NoError == "none"

\* model_output_valid_time of the files, in seconds.
ValidTimes == {0, 3600}
\* The reaches of the files, and the orders a file may store them in.
StorageOrders == {<<1, 2>>, <<2, 1>>}
\* The comids arguments.
ComidArgs == {None, Some(<<>>), Some(<<2>>), Some(<<2, 1>>), Some(<<3>>)}

\* The streamflow of reach id at valid time t.
Flow(id, t) == IF t = 0 THEN 10 * id ELSE 35 - 10 * id

\* A single-time-step netCDF file: its valid time, the order it stores the
\* reaches in, and whether it has the station_id variable.
Datasets ==
    [kind : {"nc"}, time : ValidTimes, order : StorageOrders,
     has_id : BOOLEAN]

Gzipped(ds) == [kind |-> "gz", inner |-> ds]

\* nc.variables['streamflow'][:]
Streamflow(ds) == [p \in 1..Len(ds.order) |-> Flow(ds.order[p], ds.time)]

\* nc.variables['station_id'][:]
StationId(ds) == ds.order

\* os.path.isfile
IsFile(f, p) == f[p] # NoFile

\* Dataset(p, 'r') opens: p exists and is a netCDF file.
CanOpen(f, p) == IsFile(f, p) /\ f[p].kind = "nc"

\* gzip.open(p, 'rb') and its read succeed.
CanGunzip(f, p) == IsFile(f, p) /\ f[p].kind = "gz"

CubeIdle ==
    /\ fs = [p \in AllPaths |-> NoFile]
    /\ call = None
    /\ nc_files = <<>>
    /\ comids = None
    /\ num_rivers = 0
    /\ tmpfile = None
    /\ indices = None
    /\ seconds_since_date = None
    /\ out_q = <<>>
    /\ out_t = <<>>
    /\ i = 0
    /\ pc = "idle"
    /\ result = None
    /\ err = NoError
    /\ created = {}
    /\ fs0 = fs

\* The files a call can touch: those it names and their scratch paths.
Touched(files) ==
    Range(files) \cup {TmpPath(p) : p \in {x \in Range(files) : x.gz}}

\* What a path may hold when the call starts. A file the call cannot touch
\* is left out; a '.gz' path the call names holds a gzipped dataset or
\* nothing; any other path holds a dataset or nothing.
FileOptions(p, files) ==
    IF p \notin Touched(files) THEN {NoFile}
    ELSE IF p.gz THEN {Gzipped(ds) : ds \in Datasets} \cup {NoFile}
    ELSE Datasets \cup {NoFile}

CubeInit ==
    /\ call \in [entry : {"build", "combine"},
                 nc_files : SeqsUpTo(InputPaths, MaxFiles),
                 comids : ComidArgs,
                 consistent_comid_order : BOOLEAN,
                 compute_max : BOOLEAN]
    /\ \E a \in FileOptions(PathA, call.nc_files),
          b \in FileOptions(PathB, call.nc_files),
          c \in FileOptions(PathC, call.nc_files) :
        fs = [p \in AllPaths |->
                CASE p = PathA -> a
                  [] p = PathB -> b
                  [] p = PathC -> c
                  [] OTHER -> NoFile]
    /\ nc_files = IF call.entry = "build" THEN call.nc_files ELSE <<>>
    /\ pc = IF call.entry = "build" THEN "build" ELSE "call"
    /\ comids = None
    /\ num_rivers = 0
    /\ tmpfile = None
    /\ indices = None
    /\ seconds_since_date = None
    /\ out_q = <<>>
    /\ out_t = <<>>
    /\ i = 0
    /\ result = None
    /\ err = NoError
    /\ created = {}
    /\ fs0 = fs

\* Line 475: an identifier list is given and is not empty.
Subsetting == call.comids # None /\ Len(call.comids.some) > 0

\* np.zeros((rows, cols)) and np.zeros((rows,))
Zeros2(rows, cols) == [r \in 1..rows |-> [k \in 1..cols |-> 0]]
Zeros1(rows) == [r \in 1..rows |-> 0]

\* Line 562: the files of the list that exist.
Existing == SelectSeq(call.nc_files, LAMBDA f : IsFile(fs, f))

\* Lines 562-564: no file of the list exists.
CombineNoFiles ==
    /\ pc = "call"
    /\ Existing = <<>>
    /\ pc' = "raised"
    /\ err' = "No files to combine"
    /\ UNCHANGED <<fs, call, nc_files, comids, num_rivers, tmpfile, indices,
                   seconds_since_date, out_q, out_t, i, result, created, fs0>>
    /\ UNCHANGED notCube

CombineFilterCreatesOutput ==
    /\ pc = "call"
    /\ Existing # <<>>
    /\ nc_files' = Existing
    /\ pc' = "build"
    /\ fs' = [fs EXCEPT ![OutputFile] = [kind |-> "out"]]
    /\ UNCHANGED <<call, comids, num_rivers, tmpfile, indices,
                   seconds_since_date, out_q, out_t, i, result, err, created,
                   fs0>>
    /\ UNCHANGED notCube

\* Lines 562-567: combine_files calls build_streamflow_cube with the files
\* that exist.
CombineFilter ==
    /\ pc = "call"
    /\ Existing # <<>>
    /\ nc_files' = Existing
    /\ pc' = "build"
    /\ UNCHANGED <<fs, call, comids, num_rivers, tmpfile, indices,
                   seconds_since_date, out_q, out_t, i, result, err, created,
                   fs0>>
    /\ UNCHANGED notCube

\* Lines 473-474: an empty file list, nothing is returned.
BuildEmpty ==
    /\ pc = "build"
    /\ nc_files = <<>>
    /\ pc' = "returned"
    /\ UNCHANGED <<fs, call, nc_files, comids, num_rivers, tmpfile, indices,
                   seconds_since_date, out_q, out_t, i, result, err, created,
                   fs0>>
    /\ UNCHANGED notCube

\* Line 483: Dataset(nc_files[0], 'r') of a file that is missing or, being
\* gzipped, is no netCDF file.
BuildStartIOError ==
    /\ pc = "build"
    /\ nc_files # <<>>
    /\ ~Subsetting
    /\ ~CanOpen(fs, nc_files[1])
    /\ pc' = "raised"
    /\ err' = "IOError"
    /\ UNCHANGED <<fs, call, nc_files, comids, num_rivers, tmpfile, indices,
                   seconds_since_date, out_q, out_t, i, result, created, fs0>>
    /\ UNCHANGED notCube

StartComidsNone == IF Subsetting THEN call.comids ELSE None

\* comids after lines 475-486: the list given, or else the station_id array
\* of the first file, or None when that file has no such variable.
StartComids ==
    IF Subsetting THEN call.comids
    ELSE IF fs[nc_files[1]].has_id THEN Some(StationId(fs[nc_files[1]]))
    ELSE None

\* Lines 475-493.
BuildStart ==
    /\ pc = "build"
    /\ nc_files # <<>>
    /\ Subsetting \/ CanOpen(fs, nc_files[1])
    /\ comids' = StartComids
    /\ num_rivers' = IF Subsetting THEN Len(call.comids.some)
                     ELSE Len(Streamflow(fs[nc_files[1]]))
    /\ tmpfile' = None
    /\ indices' = None
    /\ seconds_since_date' = None
    /\ out_q' = Zeros2(Len(nc_files), num_rivers')
    /\ out_t' = Zeros1(Len(nc_files))
    /\ i' = 0
    /\ pc' = "loop"
    /\ UNCHANGED <<fs, call, nc_files, result, err, created, fs0>>
    /\ UNCHANGED notCube

(***************************************************************************)
(* One pass of the loop of line 497, lines 498-518, for nc_files[i].       *)
(***************************************************************************)

\* nc_file of line 497.
ListedFile == Nth(nc_files, i)

\* Line 498.
IsGz == ListedFile.gz

\* Lines 500-501 fail: gzip.open of a missing file.
GunzipFails == IsGz /\ ~CanGunzip(fs, ListedFile)

\* The file system after lines 499-501: the scratch file holds what the
\* gzipped file holds, whatever was at its path before.
FsAfterGunzip ==
    IF IsGz THEN [fs EXCEPT ![TmpPath(ListedFile)] = fs[ListedFile].inner]
    ELSE fs

\* tmpfile after line 499: set for a '.gz' file, left as it was otherwise.
TmpfileAfter == IF IsGz THEN TmpPath(ListedFile) ELSE tmpfile

CreatedAfter == IF IsGz THEN created \cup {TmpPath(ListedFile)} ELSE created

\* nc_file after line 502.
NcFile == IF IsGz THEN TmpPath(ListedFile) ELSE ListedFile

\* The dataset line 503 opens.
Nc == FsAfterGunzip[NcFile]

SinceDateLatest == Some(Nc.time)

\* seconds_since_date after lines 507-508.
SinceDate ==
    IF seconds_since_date = None THEN Some(Nc.time) ELSE seconds_since_date

\* out_t after line 509.
OutT == [out_t EXCEPT ![i + 1] = Nc.time - SinceDate.some]

\* consistent_comid_order as build_streamflow_cube gets it (line 567 passes
\* it on).
ConsistentComidOrder == call.consistent_comid_order

NeedIndexOnce == comids # None /\ indices = None

NeedIndexAlways == comids # None

\* Lines 510-513: a permutation is computed for this file.
NeedIndex == comids # None /\ (indices = None \/ ~ConsistentComidOrder)

\* Lines 498-503: the file is missing, or is no netCDF file.
ReadFileIOError ==
    /\ pc = "loop"
    /\ i < Len(nc_files)
    /\ \/ /\ GunzipFails
          /\ UNCHANGED <<fs, created>>
       \/ /\ ~GunzipFails
          /\ ~CanOpen(FsAfterGunzip, NcFile)
          /\ fs' = FsAfterGunzip
          /\ created' = CreatedAfter
    /\ tmpfile' = TmpfileAfter
    /\ pc' = "raised"
    /\ err' = "IOError"
    /\ UNCHANGED <<call, nc_files, comids, num_rivers, indices,
                   seconds_since_date, out_q, out_t, i, result, fs0>>
    /\ UNCHANGED notCube

\* Lines 514-515: the file has no station_id variable.
ReadFileNoStation ==
    /\ pc = "loop"
    /\ i < Len(nc_files)
    /\ ~GunzipFails
    /\ CanOpen(FsAfterGunzip, NcFile)
    /\ NeedIndex
    /\ ~Nc.has_id
    /\ fs' = FsAfterGunzip
    /\ created' = CreatedAfter
    /\ tmpfile' = TmpfileAfter
    /\ seconds_since_date' = SinceDate
    /\ out_t' = OutT
    /\ pc' = "raised"
    /\ err' = "no station_id variable"
    /\ UNCHANGED <<call, nc_files, comids, num_rivers, indices, out_q, i,
                   result, fs0>>
    /\ UNCHANGED notCube

\* Line 517: _get_comid_indices raises IndexError.
ReadFileIndexError ==
    /\ pc = "loop"
    /\ i < Len(nc_files)
    /\ ~GunzipFails
    /\ CanOpen(FsAfterGunzip, NcFile)
    /\ NeedIndex
    /\ Nc.has_id
    /\ \E sorted_index \in Argsort(StationId(Nc)) :
        ~IndexInBounds(comids.some, StationId(Nc), sorted_index)
    /\ fs' = FsAfterGunzip
    /\ created' = CreatedAfter
    /\ tmpfile' = TmpfileAfter
    /\ seconds_since_date' = SinceDate
    /\ out_t' = OutT
    /\ pc' = "raised"
    /\ err' = "IndexError"
    /\ UNCHANGED <<call, nc_files, comids, num_rivers, indices, out_q, i,
                   result, fs0>>
    /\ UNCHANGED notCube

\* Lines 498-518: the file is read into row i.
ReadFile ==
    /\ pc = "loop"
    /\ i < Len(nc_files)
    /\ ~GunzipFails
    /\ CanOpen(FsAfterGunzip, NcFile)
    /\ NeedIndex => Nc.has_id
    /\ \E sorted_index \in Argsort(StationId(Nc)) :
        /\ NeedIndex => IndexInBounds(comids.some, StationId(Nc), sorted_index)
        /\ indices' =
            IF NeedIndex
                THEN Some(GetComidIndices(comids.some, StationId(Nc),
                                          sorted_index))
                ELSE indices
    /\ out_q' = [out_q EXCEPT ![i + 1] =
                    IF comids = None
                        THEN Streamflow(Nc)
                        ELSE Take(Streamflow(Nc), indices'.some)]
    /\ fs' = FsAfterGunzip
    /\ created' = CreatedAfter
    /\ tmpfile' = TmpfileAfter
    /\ seconds_since_date' = SinceDate
    /\ out_t' = OutT
    /\ pc' = "cleanup"
    /\ UNCHANGED <<call, nc_files, comids, num_rivers, i, result, err, fs0>>
    /\ UNCHANGED notCube

\* Lines 520-521, and on to the next file.
RemoveTmp ==
    /\ pc = "cleanup"
    /\ fs' = IF tmpfile # None /\ IsFile(fs, tmpfile)
                THEN [fs EXCEPT ![tmpfile] = NoFile]
                ELSE fs
    /\ i' = i + 1
    /\ pc' = "loop"
    /\ UNCHANGED <<call, nc_files, comids, num_rivers, tmpfile, indices,
                   seconds_since_date, out_q, out_t, result, err, created,
                   fs0>>
    /\ UNCHANGED notCube

Min(S) == CHOOSE m \in S : \A x \in S : m <= x

Max(S) == CHOOSE m \in S : \A x \in S : x <= m

AMin(q) == [k \in 1..Len(q[1]) |-> Min({q[r][k] : r \in 1..Len(q)})]

\* np.amax(out_q, axis=0)
AMax(q) == [k \in 1..Len(q[1]) |-> Max({q[r][k] : r \in 1..Len(q)})]

\* compute_max as build_streamflow_cube gets it: line 567 does not pass
\* it on, so a call from combine_files has the default, True.
ComputeMax == IF call.entry = "combine" THEN TRUE ELSE call.compute_max

\* Lines 523-528.
BuildReturn ==
    /\ pc = "loop"
    /\ i = Len(nc_files)
    /\ result' = [out_q |-> out_q,
                  out_t |-> out_t,
                  seconds_since_date |-> seconds_since_date,
                  max_q |-> IF ComputeMax THEN Some(AMax(out_q)) ELSE None]
    /\ pc' = IF call.entry = "combine" THEN "write" ELSE "returned"
    /\ UNCHANGED <<fs, call, nc_files, comids, num_rivers, tmpfile, indices,
                   seconds_since_date, out_q, out_t, i, err, created, fs0>>
    /\ UNCHANGED notCube

(***************************************************************************)
(* combine_files after the cube is built, lines 568-600.                   *)
(***************************************************************************)

\* A variable that was created and never written: it reads as fill values.
Unwritten == [fill |-> TRUE]

\* num_rivers of line 570.
CombineNumRivers == Len(result.out_q[1])

\* comids after lines 571-574.
CombineComids ==
    IF call.comids # None THEN call.comids
    ELSE IF fs[nc_files[1]].has_id THEN Some(StationId(fs[nc_files[1]]))
    ELSE None

\* The output file of lines 576-600; max_streamflow is written when
\* combine_files' own compute_max is set.
OutputDataset(station_id) ==
    [kind |-> "out",
     time_dim |-> Len(nc_files),
     station_dim |-> CombineNumRivers,
     time |-> Some(result.out_t),
     time_units |-> result.seconds_since_date,
     station_id |-> station_id,
     streamflow |-> Some(result.out_q),
     max_streamflow |-> IF call.compute_max THEN result.max_q ELSE None]

\* The output file when line 588 raises: the dimensions, the time variable
\* and an unwritten station_id.
PartialOutputDataset ==
    [kind |-> "out",
     time_dim |-> Len(nc_files),
     station_dim |-> CombineNumRivers,
     time |-> Some(result.out_t),
     time_units |-> result.seconds_since_date,
     station_id |-> Unwritten,
     streamflow |-> None,
     max_streamflow |-> None]

\* Line 572: Dataset(nc_files[0], 'r') of a file that is no longer there.
CombineWriteIOError ==
    /\ pc = "write"
    /\ call.comids = None
    /\ ~CanOpen(fs, nc_files[1])
    /\ pc' = "raised"
    /\ err' = "IOError"
    /\ UNCHANGED <<fs, call, nc_files, comids, num_rivers, tmpfile, indices,
                   seconds_since_date, out_q, out_t, i, result, created, fs0>>
    /\ UNCHANGED notCube

\* Lines 568-600, with as many identifiers as the cube has columns, or none.
CombineWrite ==
    /\ pc = "write"
    /\ call.comids = None => CanOpen(fs, nc_files[1])
    /\ CombineComids # None =>
            Len(CombineComids.some) = CombineNumRivers
    /\ fs' = [fs EXCEPT ![OutputFile] = OutputDataset(CombineComids)]
    /\ pc' = "returned"
    /\ UNCHANGED <<call, nc_files, comids, num_rivers, tmpfile, indices,
                   seconds_since_date, out_q, out_t, i, result, err, created,
                   fs0>>
    /\ UNCHANGED notCube

\* Line 588, comid_var[:] = comids, with a comids whose length is not the
\* station dimension (an empty list): the assignment either raises, and the
\* file is left as it is then, or writes nothing.
CombineWriteMismatch ==
    /\ pc = "write"
    /\ call.comids # None
    /\ Len(call.comids.some) # CombineNumRivers
    /\ \/ /\ fs' = [fs EXCEPT ![OutputFile] = PartialOutputDataset]
          /\ pc' = "raised"
          /\ err' = "ValueError"
       \/ /\ fs' = [fs EXCEPT ![OutputFile] = OutputDataset(Unwritten)]
          /\ pc' = "returned"
          /\ UNCHANGED err
    /\ UNCHANGED <<call, nc_files, comids, num_rivers, tmpfile, indices,
                   seconds_since_date, out_q, out_t, i, result, created, fs0>>
    /\ UNCHANGED notCube

CubeNext ==
    \/ CombineNoFiles
    \/ CombineFilter
    \/ BuildEmpty
    \/ BuildStartIOError
    \/ BuildStart
    \/ ReadFileIOError
    \/ ReadFileNoStation
    \/ ReadFileIndexError
    \/ ReadFile
    \/ RemoveTmp
    \/ BuildReturn
    \/ CombineWriteIOError
    \/ CombineWrite
    \/ CombineWriteMismatch

(***************************************************************************)
(* The specifications                                                      *)
(***************************************************************************)

InitResolver == ResolverInit /\ UnpackIdle /\ SubsetIdle /\ CubeIdle
SpecResolver == InitResolver /\ [][ResolverNext]_vars

InitUnpack == ResolverIdle /\ UnpackInit /\ SubsetIdle /\ CubeIdle
SpecUnpack == InitUnpack /\ [][UnpackNext]_vars

Init == ResolverIdle /\ UnpackIdle /\ SubsetIdle /\ CubeInit
Spec == Init /\ [][CubeNext]_vars

InitSubset == ResolverIdle /\ UnpackIdle /\ SubsetInit /\ CubeIdle
SpecSubset == InitSubset /\ [][SubsetNext]_vars

(***************************************************************************)
(* The claims                                                              *)
(***************************************************************************)

\* Every query id occurs in the stored array.
QueryInStored == Range(find_comids) \subseteq Range(nc_comids)

\* C1: for a stored identifier array without duplicates, in any order, and
\* a query made of ids that all occur in it, _get_comid_indices returns one
\* position per query id, and the stored id at the k-th position is the
\* k-th query id.
C1_ResolverFindsEveryQueryId ==
    (rpc # "call" /\ NoDuplicates(nc_comids) /\ QueryInStored)
        => /\ rpc = "returned"
           /\ Len(index) = Len(find_comids)
           /\ \A k \in 1..Len(find_comids) :
                /\ index[k] \in 0..(Len(nc_comids) - 1)
                /\ Nth(nc_comids, index[k]) = find_comids[k]

\* C1's case: an unsorted stored array, queried for a subset of its ids in
\* another order.
C1_Witness ==
    /\ rpc = "returned"
    /\ nc_comids = <<3, 1, 2>>
    /\ find_comids = <<2, 3>>
    /\ index = <<2, 0>>

\* C2: when a query id is absent from the stored array the resolver fails
\* with an error, and it never returns a position whose stored id is not
\* the query id.
C2_AbsentIdIsAnError ==
    /\ (rpc # "call" /\ ~QueryInStored) => rpc = "raised"
    /\ rpc = "returned" =>
            \A k \in 1..Len(find_comids) :
                Nth(nc_comids, index[k]) = find_comids[k]

\* The index in series_list of the series of value list m of record r.
RECURSIVE SeriesBefore(_)
SeriesBefore(r) ==
    IF r = 1 THEN 0 ELSE SeriesBefore(r - 1) + Len(data_list[r - 1].lists)

SeriesAt(r, m) == series_list[SeriesBefore(r) + m]

\* The product table of the claim, in hours: <<step, offset>>.
ProductTable(p) ==
    CASE p = "analysis_assim" -> <<1, 3>>
      [] p = "short_range" -> <<1, 1>>
      [] p = "medium_range" -> <<3, 3>>
      [] p = "long_range" -> <<6, 6>>

\* C6: the series produced for a value list has exactly len(values) dates,
\* and dates[i] = init_time + offset + step * i, with step and offset from
\* the product table.
C6_DatesMatchValues ==
    \A r \in 1..up_i :
        \A m \in 1..Len(data_list[r].lists) :
            LET s == SeriesAt(r, m)
                values == data_list[r].lists[m]
            IN  /\ s.values = values
                /\ Len(s.dates) = Len(values)
                /\ \A k \in 1..Len(s.dates) :
                        s.dates[k] = data_list[r].init
                                        + 3600 * ProductTable(product)[2]
                                        + 3600 * ProductTable(product)[1] * (k - 1)

\* Some value list of some record of the payload is empty.
SomeValueListEmpty ==
    \E r \in 1..Len(data_list) :
        \E m \in 1..Len(data_list[r].lists) :
            Len(data_list[r].lists[m]) = 0

\* C7: if any value list of any record is empty, unpacking raises the
\* empty-result error and returns no series list.
C7_AnyEmptyListRaises ==
    (upc \in {"returned", "raised"} /\ SomeValueListEmpty) => upc = "raised"

\* The names of the variables written to the output file.
Written == {out_nc.variables[k].name : k \in 1..Len(out_nc.variables)}

\* The variables the claim expects in the output.
ExpectedWritten ==
    LET base == IF sub_args.just_streamflow_var
                    THEN in_nc.present \cap {"streamflow", "time"}
                    ELSE in_nc.present
    IN  IF sub_args.include_id_var
            THEN base \cup {"station_id"}
            ELSE base \ {"station_id"}

\* C10: subset_channel_file writes the input's variables, restricted to
\* streamflow and time when just_streamflow_var is set, with station_id
\* added or removed as include_id_var says; with just_streamflow_var no
\* written variable has the coordinates attribute, and every other
\* attribute is copied.
C10_WrittenVariables ==
    spc = "returned" =>
        /\ Written = ExpectedWritten
        /\ Len(out_nc.variables) = Cardinality(Written)
        /\ \A k \in 1..Len(out_nc.variables) :
            LET v == out_nc.variables[k]
            IN  /\ sub_args.just_streamflow_var =>
                        "coordinates" \notin v.attrs
                /\ v.attrs \ {"coordinates"} =
                        in_nc.attrs[v.name] \ {"coordinates"}

\* C10's case: all variables carry coordinates, only streamflow is wanted
\* and station_id is kept.
C10_Witness ==
    /\ spc = "returned"
    /\ sub_args.just_streamflow_var
    /\ sub_args.include_id_var
    /\ in_nc.present = VarNames
    /\ \A n \in VarNames : "coordinates" \in in_nc.attrs[n]
    /\ Written = {"time", "station_id", "streamflow"}

\* What the file at path p held when the call started: for a '.gz' path,
\* the dataset inside.
FileData(p) == IF p.gz THEN fs0[p].inner ELSE fs0[p]

\* Every file of the list has a station_id variable that holds every id of
\* the comids argument.
IdsInEveryFile ==
    \A r \in 1..Len(nc_files) :
        /\ IsFile(fs0, nc_files[r])
        /\ FileData(nc_files[r]).has_id
        /\ Range(call.comids.some) \subseteq Range(FileData(nc_files[r]).order)

\* All files store their identifiers in the same order.
SameOrderInEveryFile ==
    \A r1, r2 \in 1..Len(nc_files) :
        FileData(nc_files[r1]).order = FileData(nc_files[r2]).order

\* C3: with an explicit non-empty identifier list whose ids occur in every
\* file, and with consistent_comid_order false or files that do store their
\* identifiers in one order, cube[i][k] is the streamflow file i stores for
\* reach comids[k]; the lookup raises no error.
C3_RowsInQueryOrder ==
    (/\ pc \notin {"call", "build"}
     /\ Subsetting
     /\ IdsInEveryFile
     /\ ~call.consistent_comid_order \/ SameOrderInEveryFile)
        => /\ err \notin {"IndexError", "no station_id variable"}
           /\ result # None =>
                /\ Len(result.out_q) = Len(nc_files)
                /\ \A r \in 1..Len(nc_files) :
                    /\ Len(result.out_q[r]) = Len(call.comids.some)
                    /\ \A k \in 1..Len(call.comids.some) :
                        result.out_q[r][k] =
                            Flow(call.comids.some[k],
                                 FileData(nc_files[r]).time)

\* C3's case: two files, one of them gzipped, that store the reaches in
\* different orders, read with consistent_comid_order false.
C3_Witness ==
    /\ result # None
    /\ Subsetting
    /\ ~call.consistent_comid_order
    /\ nc_files = <<PathC, PathA>>
    /\ IdsInEveryFile
    /\ ~SameOrderInEveryFile

\* C4: the time array has one entry per file, the whole seconds between the
\* file's valid time and the first file's; its first entry is 0 and the
\* reference timestamp is the first file's, whatever comids,
\* consistent_comid_order and compute_max are.
C4_ElapsedSeconds ==
    result # None =>
        /\ Len(result.out_t) = Len(nc_files)
        /\ \A r \in 1..Len(nc_files) :
            result.out_t[r] =
                FileData(nc_files[r]).time - FileData(nc_files[1]).time
        /\ result.out_t[1] = 0
        /\ result.seconds_since_date = Some(FileData(nc_files[1]).time)

\* C4's case: a second file one hour after the first.
C4_Witness ==
    /\ result # None
    /\ Len(nc_files) = 2
    /\ result.out_t = <<0, 3600>>
    /\ Subsetting
    /\ ~call.compute_max

\* C5: every scratch file the call wrote is gone when the next file is
\* taken up and when the call ends, by returning or by raising.
C5_NoScratchFileRemains ==
    pc \in {"loop", "write", "returned", "raised"} =>
        \A p \in created : ~IsFile(fs, p)

\* compute_max as the cube builder was called with.
ComputeMaxArgument ==
    IF call.entry = "build" THEN call.compute_max ELSE TRUE

\* C8: with compute_max true the maximum array has one entry per column of
\* the cube, the column's maximum over the time steps; with compute_max
\* false there is none.
C8_MaxPerColumn ==
    result # None =>
        IF ComputeMaxArgument
            THEN /\ result.max_q # None
                 /\ Len(result.max_q.some) = Len(result.out_q[1])
                 /\ \A k \in 1..Len(result.out_q[1]) :
                    /\ \A r \in 1..Len(result.out_q) :
                        result.out_q[r][k] <= result.max_q.some[k]
                    /\ \E r \in 1..Len(result.out_q) :
                        result.out_q[r][k] = result.max_q.some[k]
            ELSE result.max_q = None

\* C8's case: the maxima of the two columns come from different rows.
C8_Witness ==
    /\ result # None
    /\ result.out_q = <<<<10, 20>>, <<25, 15>>>>
    /\ result.max_q = Some(<<25, 20>>)

\* C9: the output file exists only once the cube builder has returned the
\* whole cube; if no file of the list exists the call raises 'No files to
\* combine', and then, or when the cube builder raises, there is no output
\* file.
C9_OutputAfterCube ==
    /\ IsFile(fs, OutputFile) =>
        /\ call.entry = "combine"
        /\ pc \in {"returned", "raised"}
        /\ result # None
        /\ Len(result.out_q) = Len(nc_files)
    /\ (/\ call.entry = "combine"
        /\ pc # "call"
        /\ \A f \in Range(call.nc_files) : ~IsFile(fs0, f))
            => /\ pc = "raised"
               /\ err = "No files to combine"
    /\ (pc = "raised" /\ result = None) => ~IsFile(fs, OutputFile)

\* C9's case: the cube builder raises at the second file of a call of
\* combine_files.
C9_Witness ==
    /\ call.entry = "combine"
    /\ pc = "raised"
    /\ err = "no station_id variable"
    /\ i = 1
    /\ ~IsFile(fs, OutputFile)

\* The file the loop is at, or has just read, as it was when the call
\* started.
CurrentFile == FileData(Nth(nc_files, i))

\* The streamflow array of the r-th file of the list, in storage order.
StoredRow(r) == Streamflow(FileData(nc_files[r]))

\* C11: with an explicit non-empty identifier list, the missing-identifier
\* error is raised at file i exactly when file i has no station_id variable
\* and a permutation must be computed for it: it is the first file, or
\* consistent_comid_order is false. With consistent_comid_order true the
\* permutation is the first file's, and every later file, with or without
\* station_id, is read through it.
C11_MissingIdentifierError ==
    Subsetting =>
        /\ (pc = "raised" /\ err = "no station_id variable") =>
                /\ ~CurrentFile.has_id
                /\ i = 0 \/ ~call.consistent_comid_order
        /\ (pc = "raised" /\ call.consistent_comid_order /\ i > 0) =>
                err \notin {"no station_id variable", "IndexError"}
        /\ (pc = "cleanup" /\ ~CurrentFile.has_id) =>
                /\ i > 0
                /\ call.consistent_comid_order
        /\ (pc = "cleanup" /\ call.consistent_comid_order) =>
                /\ indices # None
                /\ Len(indices.some) = Len(call.comids.some)
                /\ \A k \in 1..Len(call.comids.some) :
                    Nth(FileData(nc_files[1]).order, indices.some[k]) =
                        call.comids.some[k]
                /\ \A r \in 1..(i + 1) :
                    out_q[r] = Take(StoredRow(r), indices.some)

\* C11's case: the second file has no station_id variable and is read
\* through the first file's permutation.
C11_Witness ==
    /\ Subsetting
    /\ call.consistent_comid_order
    /\ result # None
    /\ Len(nc_files) = 2
    /\ FileData(nc_files[1]).has_id
    /\ ~FileData(nc_files[2]).has_id
    /\ FileData(nc_files[1]).order = <<1, 2>>
    /\ call.comids = Some(<<2, 1>>)
    /\ result.out_q[2] = Take(StoredRow(2), <<1, 0>>)

\* The first file of the list, as it was when the call started.
FirstFile == FileData(nc_files[1])

\* The positions 0 .. n-1 in order: the permutation that changes nothing.
Identity(n) == [k \in 1..n |-> k - 1]

\* C12 as stated: without identifier subsetting every row is the file's full
\* streamflow array in storage order, no permutation is computed and the
\* missing-identifier error is never raised.
C12_FullArrayNoPermutation ==
    ~Subsetting =>
        /\ indices = None
        /\ err # "no station_id variable"
        /\ pc = "cleanup" => \A r \in 1..(i + 1) : out_q[r] = StoredRow(r)

\* C12, amended: without identifier subsetting the identifier list is the
\* first file's station_id array, when it has one. If it has none, no
\* permutation is computed, the missing-identifier error is never raised and
\* every row is the file's array in storage order. If it has one, then with
\* consistent_comid_order true the permutation is the identity, computed
\* once from the first file, every row is the file's array in storage order
\* and the error is never raised; with consistent_comid_order false a
\* permutation is computed per file, every row holds the file's values in
\* the first file's identifier order, and the error is raised exactly at a
\* later file that lacks station_id.
C12_FirstFileOrder ==
    ~Subsetting =>
        /\ err = "no station_id variable" =>
                /\ pc = "raised"
                /\ i > 0
                /\ ~call.consistent_comid_order
                /\ FirstFile.has_id
                /\ ~CurrentFile.has_id
        /\ pc = "cleanup" =>
                /\ comids = IF FirstFile.has_id THEN Some(FirstFile.order)
                            ELSE None
                /\ (indices = None) <=> ~FirstFile.has_id
                /\ ~CurrentFile.has_id =>
                        \/ ~FirstFile.has_id
                        \/ call.consistent_comid_order /\ i > 0
                /\ (~FirstFile.has_id \/ call.consistent_comid_order) =>
                        \A r \in 1..(i + 1) : out_q[r] = StoredRow(r)
                /\ (FirstFile.has_id /\ call.consistent_comid_order) =>
                        indices = Some(Identity(Len(FirstFile.order)))
                /\ (FirstFile.has_id /\ ~call.consistent_comid_order) =>
                        \A r \in 1..(i + 1) :
                            \A k \in 1..Len(FirstFile.order) :
                                out_q[r][k] =
                                    Flow(FirstFile.order[k],
                                         FileData(nc_files[r]).time)

\* C12's case: no identifier list, consistent_comid_order false, and a second
\* file that stores its reaches in another order than the first: its row is
\* in the first file's order, not in its own.
C12_Witness ==
    /\ ~Subsetting
    /\ ~call.consistent_comid_order
    /\ result # None
    /\ Len(nc_files) = 2
    /\ FirstFile.has_id
    /\ FileData(nc_files[2]).order # FirstFile.order
    /\ result.out_q[2] # StoredRow(2)
    /\ result.out_q[2] = Take(StoredRow(2), <<1, 0>>)

\* C13: no file that existed before the call is overwritten or removed by
\* build_streamflow_cube: every path other than combine_files' output that
\* held a file when the call started holds the same file at every moment of
\* the call.
C13_ExistingFilesUntouched ==
    \A p \in AllPaths \ {OutputFile} :
        IsFile(fs0, p) => fs[p] = fs0[p]

\* The file combine_files has written, once it is there.
Output == fs[OutputFile]

\* C14: in every file combine_files has written, the station dimension is
\* the number of columns of the cube, and a station_id variable that is
\* there holds one identifier per station, entry k the identifier of the
\* reach whose values are in column k of the cube. The files are taken to
\* store their reaches in one order when consistent_comid_order says so.
C14_StationIdMatchesColumns ==
    (/\ IsFile(fs, OutputFile)
     /\ ~call.consistent_comid_order \/ SameOrderInEveryFile) =>
        /\ Output.station_dim = Len(result.out_q[1])
        /\ Output.station_id # None =>
                /\ Output.station_id # Unwritten
                /\ Len(Output.station_id.some) = Output.station_dim
                /\ \A k \in 1..Output.station_dim :
                    \A r \in 1..Len(nc_files) :
                        result.out_q[r][k] =
                            Flow(Output.station_id.some[k],
                                 FileData(nc_files[r]).time)

====
